---- MODULE Spec2Model ----
(***************************************************************************)
(* Task manager: the task store (tasks and idempotency_keys tables), the   *)
(* task service (Create / Update / Delete), and the worker pool that       *)
(* claims, processes and completes tasks.                                  *)
(***************************************************************************)
EXTENDS Integers, Sequences, FiniteSets, TLC

(* ------------------------------ bounds --------------------------------- *)
NumWorkers == 2
NumSeed == 2
MaxTime == 2
NumEditors == 2
NumCreators == 2
MaxVersion == 3
MaxTasks == 2

(* ------------------------- program constants --------------------------- *)
MinPriority == 1
MaxPriority == 10
InitialVersion == 1

Workers == 0 .. (NumWorkers - 1)
Editors == 1 .. NumEditors
Creators == 1 .. NumCreators

NoTask == 0
SeedTitle == <<"T">>
SeedPriorities == {5, 10}
SeedTimes == {0, 1}
EditTitles == {<<" ">>, <<"a">>}
EditPriorities == {3, 8, 11}
EditVersions == 1 .. MaxVersion
WhiteSpace == {" ", "\t", "\n"}
IdemKey == "k1"
CreateTitles == {<<"a">>, <<"b">>}
CreatePriorities == {0, 5}
NoKey == ""
OpTitles == {<<"a">>}
OpPriorities == {8}
CreateKeys == {NoKey, IdemKey}

VARIABLES
    tasks,      \* tasks table: id -> row
    nextId,     \* BIGSERIAL sequence of tasks.id
    idem,       \* idempotency_keys table: key -> resource_id
    locked,     \* ids of rows locked FOR UPDATE by an in-flight claim statement
    now,        \* the store's clock, now()
    stop,       \* Pool.stop: TRUE once the channel is closed
    ctxDone,    \* the context handed to Start is cancelled
    wg,         \* Pool.wg counter
    mpc,        \* position of the goroutine that calls Start and Stop
    mi,         \* loop index i of Start
    atStop,     \* ids of the rows in status processing when Stop closed the channel
    wpc,        \* position of each worker goroutine
    wtask,      \* id of the task a worker has locked or claimed
    werr,       \* err of this iteration of the worker's loop ("none" for nil), where it is recorded
    epc,        \* position of each editor (a caller of TaskService.Update)
    ereq,       \* the task an editor passes to Update
    eres,       \* the error an editor's Update returned
    cpc,        \* position of each caller of TaskService.Create
    creq,       \* the task and key a creator passes to Create
    cres,       \* the error Create returned
    cid,        \* the id the creator looked up / the id of the task Create returned
    rcall,      \* the last call a client made on TaskRepo, and what it returned
    hres        \* the last response written by a handler of the request layer

storeVars == <<tasks, nextId, idem, locked, now>>
poolVars == <<stop, ctxDone, wg, mpc, mi, atStop, wpc, wtask, werr>>
editVars == <<epc, ereq, eres>>
createVars == <<cpc, creq, cres, cid>>
repoVars == <<rcall, hres>>
vars == <<tasks, nextId, idem, locked, now, stop, ctxDone, wg, mpc, mi, atStop,
          wpc, wtask, werr, epc, ereq, eres, cpc, creq, cres, cid, rcall, hres>>

(* ------------------------------ the store ------------------------------ *)
Ids == DOMAIN tasks

\* an INSERT that leaves the version at zero
NewRowVersionZero(title, priority, t) ==
    [title |-> title, priority |-> priority, status |-> "pending",
     version |-> 0, created_at |-> t, updated_at |-> t]

\* INSERT INTO tasks (title, priority, status) VALUES ($1, $2, 'pending'):
\* version and the two timestamps take their column defaults.
NewRow(title, priority, t) ==
    [title |-> title, priority |-> priority, status |-> "pending",
     version |-> InitialVersion, created_at |-> t, updated_at |-> t]

\* the store's clock moves forward
Tick ==
    /\ now < MaxTime
    /\ now' = now + 1
    /\ UNCHANGED <<tasks, nextId, idem, locked>>
    /\ UNCHANGED <<poolVars, editVars, createVars, repoVars>>

\* A statement issued on a cancelled context may fail without effect.
ExecApplies == IF ctxDone THEN BOOLEAN ELSE {TRUE}

(* --------------------------- the worker pool --------------------------- *)
\* if err := p.processNext(ctx, id); ...: the err of worker w's iteration is
\* e; it is recorded for the workers whose loop is observed
SetErr(w, e) == IF werr[w] = "unobserved" THEN werr ELSE [werr EXCEPT ![w] = e]

\* the ordering without its tie-break
ClaimBeforeNoTie(a, b) == tasks[a].priority > tasks[b].priority

\* ORDER BY priority DESC, created_at: a comes before b
ClaimBefore(a, b) ==
    \/ tasks[a].priority > tasks[b].priority
    \/ /\ tasks[a].priority = tasks[b].priority
       /\ tasks[a].created_at < tasks[b].created_at

\* the selection without SKIP LOCKED and without the row lock
ClaimCandidatesNoLock == {id \in Ids : tasks[id].status = "pending"}

\* WHERE status = 'pending' ... FOR UPDATE SKIP LOCKED
ClaimCandidates == {id \in Ids : tasks[id].status = "pending" /\ id \notin locked}

\* a selection that orders and limits the rows before it filters them
ClaimFirstOfAll(cands) == {id \in cands : \A o \in Ids : ~ClaimBefore(o, id)}

\* ... ORDER BY priority DESC, created_at ... LIMIT 1
ClaimFirst(cands) == {id \in cands : \A o \in cands : ~ClaimBefore(o, id)}

\* a claim that takes the next version
ClaimSetNextVersion(row, t) ==
    [row EXCEPT !.status = "processing", !.updated_at = t, !.version = @ + 1]

\* UPDATE tasks SET status = 'processing', updated_at = now()
ClaimSet(row, t) == [row EXCEPT !.status = "processing", !.updated_at = t]

\* a completion that is applied to a row in processing only
CompleteTableIfProcessing(id, t) ==
    [i \in Ids |-> IF i = id /\ tasks[i].status = "processing"
                   THEN [tasks[i] EXCEPT !.status = "completed", !.updated_at = t]
                   ELSE tasks[i]]

\* a completion that leaves the status as it is
CompleteSetSameStatus(row, t) == [row EXCEPT !.updated_at = t]

\* UPDATE tasks SET status = 'completed', updated_at = now() WHERE id = $1
CompleteSet(row, t) == [row EXCEPT !.status = "completed", !.updated_at = t]

\* completeTask(id): the table its statement leaves, ... WHERE id = $1
CompleteTable(id, t) ==
    [i \in Ids |-> IF i = id THEN CompleteSet(tasks[i], t) ELSE tasks[i]]

\* a revert that takes the next version
RevertSetNextVersion(row) == [row EXCEPT !.status = "pending", !.version = @ + 1]

\* UPDATE tasks SET status='pending' WHERE id=$1
RevertSet(row) == [row EXCEPT !.status = "pending"]

\* a Stop that does not join the workers
WaitReturnsAtOnce(n) == TRUE

\* wg.Wait() returns when the counter is zero
WaitReturns(n) == n = 0

\* Start: one iteration of the loop, wg.Add(1) and go p.worker(ctx, i)
Start ==
    /\ mpc = "new"
    /\ mi < NumWorkers
    /\ wg' = wg + 1
    /\ wpc' = [wpc EXCEPT ![mi] = "select"]
    /\ mi' = mi + 1
    /\ UNCHANGED <<stop, ctxDone, mpc, atStop, wtask, werr>>
    /\ UNCHANGED <<storeVars, editVars, createVars, repoVars>>

\* Start returns
StartReturn ==
    /\ mpc = "new"
    /\ mi = NumWorkers
    /\ mpc' = "running"
    /\ UNCHANGED <<stop, ctxDone, wg, mi, atStop, wpc, wtask, werr>>
    /\ UNCHANGED <<storeVars, editVars, createVars, repoVars>>

\* Stop: close(p.stop)
StopClose ==
    /\ mpc = "running"
    /\ stop' = TRUE
    /\ atStop' = {id \in Ids : tasks[id].status = "processing"}
    /\ mpc' = "waiting"
    /\ UNCHANGED <<ctxDone, wg, mi, wpc, wtask, werr>>
    /\ UNCHANGED <<storeVars, editVars, createVars, repoVars>>

\* Stop: p.wg.Wait() returns, Stop returns
StopWait ==
    /\ mpc = "waiting"
    /\ WaitReturns(wg)
    /\ mpc' = "stopped"
    /\ UNCHANGED <<stop, ctxDone, wg, mi, atStop, wpc, wtask, werr>>
    /\ UNCHANGED <<storeVars, editVars, createVars, repoVars>>

\* a close that does nothing on a channel that is closed
CloseNextOnce(closed) == "waiting"

\* close(p.stop): the close of a closed channel is a run-time panic
CloseNext(closed) == IF closed THEN "panicked" ELSE "waiting"

\* Stop called again on a pool whose Stop has returned: close(p.stop)
StopAgain ==
    /\ mpc = "stopped"
    /\ mpc' = CloseNext(stop)
    /\ stop' = TRUE
    /\ UNCHANGED <<ctxDone, wg, mi, atStop, wpc, wtask, werr>>
    /\ UNCHANGED <<storeVars, editVars, createVars, repoVars>>

\* the caller's context is cancelled
CtxCancel ==
    /\ mpc \in {"running", "waiting"}
    /\ ~ctxDone
    /\ ctxDone' = TRUE
    /\ UNCHANGED <<stop, wg, mpc, mi, atStop, wpc, wtask, werr>>
    /\ UNCHANGED <<storeVars, editVars, createVars, repoVars>>

\* a worker that returns without p.wg.Done()
WgDoneMissing(n) == n

\* p.wg.Done()
WgDone(n) == n - 1

\* worker: select, case <-p.stop: return, and the deferred ticker.Stop() and
\* p.wg.Done()
WorkerStop(w) ==
    /\ wpc[w] = "select"
    /\ stop
    /\ wg' = WgDone(wg)
    /\ wpc' = [wpc EXCEPT ![w] = "exited"]
    /\ werr' = SetErr(w, "none")
    /\ UNCHANGED <<stop, ctxDone, mpc, mi, atStop, wtask>>
    /\ UNCHANGED <<storeVars, editVars, createVars, repoVars>>

\* worker: select, case <-ctx.Done(): return, and the deferred ticker.Stop()
\* and p.wg.Done()
WorkerCtxDone(w) ==
    /\ wpc[w] = "select"
    /\ ctxDone
    /\ wg' = WgDone(wg)
    /\ wpc' = [wpc EXCEPT ![w] = "exited"]
    /\ werr' = SetErr(w, "none")
    /\ UNCHANGED <<stop, ctxDone, mpc, mi, atStop, wtask>>
    /\ UNCHANGED <<storeVars, editVars, createVars, repoVars>>

\* worker: select, case <-ticker.C: a tick is ready in ticker.C (the ticker
\* runs from the start of the goroutine and buffers one tick) and processNext
\* is called
WorkerTick(w) ==
    /\ wpc[w] = "select"
    /\ wpc' = [wpc EXCEPT ![w] = "claim"]
    /\ werr' = SetErr(w, "none")
    /\ UNCHANGED <<stop, ctxDone, wg, mpc, mi, atStop, wtask>>
    /\ UNCHANGED <<storeVars, editVars, createVars, repoVars>>

\* a loop that ends on an error other than pgx.ErrNoRows
LoopAfterFatal(e) == IF e \in {"none", "norows"} THEN "select" ELSE "exited"

\* worker: processNext has returned e; an error other than pgx.ErrNoRows is
\* logged, and the for loop goes to its select again
LoopAfter(e) == "select"

\* a claim that reports no row although a row can be claimed
ClaimErrorNoRows(applied, cands) == "norows"

\* claimTask, the error of a statement that returns no row: pgx.ErrNoRows
\* when the statement found no row, the error of the statement otherwise
ClaimError(applied, cands) == IF applied /\ cands = {} THEN "norows" ELSE "claim"

\* claimTask, the CTE: select the first pending row that is not locked and
\* lock it; with no such row the statement returns pgx.ErrNoRows and
\* processNext returns it to the loop.
ClaimSelect(w) ==
    /\ wpc[w] = "claim"
    /\ \E applied \in ExecApplies :
         IF applied /\ ClaimCandidates # {}
         THEN \E id \in ClaimFirst(ClaimCandidates) :
                /\ locked' = locked \cup {id}
                /\ wtask' = [wtask EXCEPT ![w] = id]
                /\ wpc' = [wpc EXCEPT ![w] = "claim_update"]
                /\ UNCHANGED werr
         ELSE /\ wpc' = [wpc EXCEPT ![w] = LoopAfter(ClaimError(applied, ClaimCandidates))]
              /\ werr' = SetErr(w, ClaimError(applied, ClaimCandidates))
              /\ UNCHANGED <<locked, wtask>>
    /\ UNCHANGED <<tasks, nextId, idem, now>>
    /\ UNCHANGED <<stop, ctxDone, wg, mpc, mi, atStop>>
    /\ UNCHANGED <<editVars, createVars, repoVars>>

\* claimTask, the UPDATE ... RETURNING of the locked row; the statement ends
\* and the row lock is released. A cancelled statement rolls back.
ClaimUpdate(w) ==
    /\ wpc[w] = "claim_update"
    /\ locked' = locked \ {wtask[w]}
    /\ \E applied \in ExecApplies :
         IF applied
         THEN /\ tasks' = [tasks EXCEPT ![wtask[w]] = ClaimSet(@, now)]
              /\ wpc' = [wpc EXCEPT ![w] = "work"]
              /\ UNCHANGED <<wtask, werr>>
         ELSE /\ wpc' = [wpc EXCEPT ![w] = LoopAfter(ClaimError(applied, {wtask[w]}))]
              /\ wtask' = [wtask EXCEPT ![w] = NoTask]
              /\ werr' = SetErr(w, ClaimError(applied, {wtask[w]}))
              /\ UNCHANGED tasks
    /\ UNCHANGED <<nextId, idem, now>>
    /\ UNCHANGED <<stop, ctxDone, wg, mpc, mi, atStop>>
    /\ UNCHANGED <<editVars, createVars, repoVars>>

\* a completion that reports a statement that matched no row
CompleteErrorNoRow(applied, id) ==
    IF ~applied THEN "complete" ELSE IF id \notin Ids THEN "notfound" ELSE "none"

\* completeTask: the err of Exec, nil when the statement ran, whatever the
\* number of rows it matched
CompleteError(applied, id) == IF applied THEN "none" ELSE "complete"

\* processNext: select, case <-time.After(processingTime): the unit of work
\* is done, completeTask(ctx, task.ID), and processNext returns to the loop
Complete(w) ==
    /\ wpc[w] = "work"
    /\ wtask[w] \notin locked
    /\ \E applied \in ExecApplies :
         /\ IF applied
            THEN tasks' = CompleteTable(wtask[w], now)
            ELSE UNCHANGED tasks
         /\ werr' = SetErr(w, CompleteError(applied, wtask[w]))
         /\ wpc' = [wpc EXCEPT ![w] = LoopAfter(CompleteError(applied, wtask[w]))]
    /\ wtask' = [wtask EXCEPT ![w] = NoTask]
    /\ UNCHANGED <<nextId, idem, locked, now>>
    /\ UNCHANGED <<stop, ctxDone, wg, mpc, mi, atStop>>
    /\ UNCHANGED <<editVars, createVars, repoVars>>

\* processNext: select, case <-ctx.Done(): the revert, p.pool.Exec(ctx,
\* "UPDATE tasks SET status='pending' WHERE id=$1"), then return ctx.Err()
Revert(w) ==
    /\ wpc[w] = "work"
    /\ ctxDone
    /\ wtask[w] \notin locked
    /\ \E applied \in ExecApplies :
         IF applied /\ wtask[w] \in Ids
         THEN tasks' = [tasks EXCEPT ![wtask[w]] = RevertSet(@)]
         ELSE UNCHANGED tasks
    /\ werr' = SetErr(w, "ctx")
    /\ wpc' = [wpc EXCEPT ![w] = LoopAfter("ctx")]
    /\ wtask' = [wtask EXCEPT ![w] = NoTask]
    /\ UNCHANGED <<nextId, idem, locked, now>>
    /\ UNCHANGED <<stop, ctxDone, wg, mpc, mi, atStop>>
    /\ UNCHANGED <<editVars, createVars, repoVars>>

(* --------------------------- the task service ------------------------- *)
RECURSIVE TrimLeft(_)
TrimLeft(s) == IF s # <<>> /\ Head(s) \in WhiteSpace THEN TrimLeft(Tail(s)) ELSE s

RECURSIVE TrimRight(_)
TrimRight(s) ==
    IF s # <<>> /\ s[Len(s)] \in WhiteSpace
    THEN TrimRight(SubSeq(s, 1, Len(s) - 1))
    ELSE s

\* strings.TrimSpace
TrimSpace(s) == TrimRight(TrimLeft(s))

\* a validation that rejects the two ends of the range of priorities
validateOpenRange(t) ==
    /\ TrimSpace(t.title) # <<>>
    /\ ~(t.priority <= MinPriority \/ t.priority >= MaxPriority)

\* TaskService.validate: TRUE when it returns nil
validate(t) ==
    /\ TrimSpace(t.title) # <<>>
    /\ ~(t.priority < MinPriority \/ t.priority > MaxPriority)

\* a save of the key that stores nothing
InsertKeyNothing(table, key, id) == table

\* a save of the key that replaces the stored resource_id
InsertKeyOverwrite(table, key, id) ==
    [k \in DOMAIN table \cup {key} |-> IF k = key THEN id ELSE table[k]]

\* INSERT INTO idempotency_keys (key, resource_id) VALUES ($1, $2)
\* ON CONFLICT (key) DO NOTHING
InsertKey(table, key, id) ==
    IF key \in DOMAIN table THEN table ELSE table @@ (key :> id)

\* a test of the key that takes every key for a key
HasKeyAlways(key) == TRUE

\* TaskService.Create: idempKey != ""
HasKey(key) == key # NoKey

\* the requests callers make of TaskService.Create
CreateRequests == [title : CreateTitles, priority : CreatePriorities, key : CreateKeys]

\* TaskService.Create is called with task and key t: validate, and the test
\* of the key
CreateEnter(c, t) ==
    /\ cpc[c] = "idle"
    /\ creq' = [creq EXCEPT ![c] = t]
    /\ IF ~validate(t)
       THEN /\ cpc' = [cpc EXCEPT ![c] = "done"]
            /\ cres' = [cres EXCEPT ![c] = "validation"]
       ELSE /\ cpc' = [cpc EXCEPT ![c] = IF HasKey(t.key) THEN "getkey" ELSE "insert"]
            /\ UNCHANGED cres
    /\ UNCHANGED cid
    /\ UNCHANGED <<storeVars, poolVars, editVars, repoVars>>

\* a caller calls TaskService.Create
CreateCall(c) == \E t \in CreateRequests : CreateEnter(c, t)

\* TaskService.Create: s.repo.GetIdempotencyKey(ctx, idempKey)
CreateGetKey(c) ==
    /\ cpc[c] = "getkey"
    /\ IF creq[c].key \in DOMAIN idem
       THEN /\ cid' = [cid EXCEPT ![c] = idem[creq[c].key]]
            /\ cpc' = [cpc EXCEPT ![c] = "get"]
       ELSE /\ cpc' = [cpc EXCEPT ![c] = "insert"]
            /\ UNCHANGED cid
    /\ UNCHANGED <<creq, cres>>
    /\ UNCHANGED <<storeVars, poolVars, editVars, repoVars>>

\* TaskService.Create: return s.repo.Get(ctx, existingID)
CreateGet(c) ==
    /\ cpc[c] = "get"
    /\ cres' = [cres EXCEPT ![c] = IF cid[c] \in Ids THEN "ok" ELSE "notfound"]
    /\ cpc' = [cpc EXCEPT ![c] = "done"]
    /\ UNCHANGED <<creq, cid>>
    /\ UNCHANGED <<storeVars, poolVars, editVars, repoVars>>

\* TaskService.Create: s.repo.Create(ctx, t), the INSERT ... RETURNING
CreateInsert(c) ==
    /\ cpc[c] = "insert"
    /\ tasks' = tasks @@ (nextId :> NewRow(creq[c].title, creq[c].priority, now))
    /\ nextId' = nextId + 1
    /\ cid' = [cid EXCEPT ![c] = nextId]
    /\ IF HasKey(creq[c].key)
       THEN /\ cpc' = [cpc EXCEPT ![c] = "savekey"]
            /\ UNCHANGED cres
       ELSE /\ cpc' = [cpc EXCEPT ![c] = "done"]
            /\ cres' = [cres EXCEPT ![c] = "ok"]
    /\ UNCHANGED creq
    /\ UNCHANGED <<idem, locked, now>>
    /\ UNCHANGED <<poolVars, editVars, repoVars>>

\* TaskService.Create: s.repo.SaveIdempotencyKey(ctx, idempKey, resource.ID),
\* then return resource, nil
CreateSaveKey(c) ==
    /\ cpc[c] = "savekey"
    /\ idem' = InsertKey(idem, creq[c].key, cid[c])
    /\ cpc' = [cpc EXCEPT ![c] = "done"]
    /\ cres' = [cres EXCEPT ![c] = "ok"]
    /\ UNCHANGED <<creq, cid>>
    /\ UNCHANGED <<tasks, nextId, locked, now>>
    /\ UNCHANGED <<poolVars, editVars, repoVars>>

\* an Update that compares no version
UpdateWhereAnyVersion(row, t) == TRUE

\* an Update that accepts any version up to the stored one
UpdateWhereNotNewer(row, t) == row.version >= t.version

\* TaskRepo.Update: ... WHERE id = $1 AND version = $4, for the row of id $1
UpdateWhere(row, t) == row.version = t.version

\* an Update that leaves the version as it is
UpdateSetSameVersion(row, t, at) ==
    [row EXCEPT !.title = t.title, !.priority = t.priority, !.updated_at = at]

\* an Update that writes the status of the task it was given
UpdateSetWithStatus(row, t, at) ==
    [row EXCEPT !.title = t.title, !.priority = t.priority,
                !.version = @ + 1, !.updated_at = at, !.status = "pending"]

\* TaskRepo.Update: SET title = $2, priority = $3, version = version + 1,
\* updated_at = now()
UpdateSet(row, t, at) ==
    [row EXCEPT !.title = t.title, !.priority = t.priority,
                !.version = @ + 1, !.updated_at = at]

\* the tasks callers pass to TaskService.Update
EditRequests ==
    [id : Ids, title : EditTitles, priority : EditPriorities, version : EditVersions]

\* a caller has built the task t it will pass to TaskService.Update
EditorEnter(e, t) ==
    /\ epc[e] = "idle"
    /\ ereq' = [ereq EXCEPT ![e] = t]
    /\ epc' = [epc EXCEPT ![e] = "call"]
    /\ UNCHANGED eres
    /\ UNCHANGED <<storeVars, poolVars, createVars, repoVars>>

\* a caller builds the task it will pass to TaskService.Update
EditorCall(e) == \E t \in EditRequests : EditorEnter(e, t)

\* an Update that reports a missing row as not found
UpdateErrorNotFound(t) ==
    IF ~validate(t) THEN "validation"
    ELSE IF t.id \notin Ids THEN "notfound"
    ELSE IF UpdateWhere(tasks[t.id], t) THEN "ok"
    ELSE "conflict"

\* TaskService.Update, the error it returns: validate, then TaskRepo.Update
\* whose statement returns no row when the WHERE clause matches none
UpdateError(t) ==
    IF ~validate(t) THEN "validation"
    ELSE IF t.id \in Ids /\ UpdateWhere(tasks[t.id], t) THEN "ok"
    ELSE "conflict"

\* TaskService.Update, the tasks table it leaves
UpdateTable(t, at) ==
    IF UpdateError(t) = "ok"
    THEN [tasks EXCEPT ![t.id] = UpdateSet(@, t, at)]
    ELSE tasks

\* TaskService.Update as called by editor e: one conditional statement; it
\* waits for a row lock held by a claim
Update(e) ==
    /\ epc[e] = "call"
    /\ ereq[e].id \notin locked
    /\ tasks' = UpdateTable(ereq[e], now)
    /\ eres' = [eres EXCEPT ![e] = UpdateError(ereq[e])]
    /\ epc' = [epc EXCEPT ![e] = "done"]
    /\ UNCHANGED ereq
    /\ UNCHANGED <<nextId, idem, locked, now>>
    /\ UNCHANGED <<poolVars, createVars, repoVars>>

\* a request: TaskService.Create with no idempotency key and a valid task,
\* one INSERT
OpCreate ==
    /\ nextId <= MaxTasks
    /\ \E title \in OpTitles : \E priority \in OpPriorities :
         /\ validate([title |-> title, priority |-> priority])
         /\ tasks' = tasks @@ (nextId :> NewRow(title, priority, now))
    /\ nextId' = nextId + 1
    /\ UNCHANGED <<idem, locked, now>>
    /\ UNCHANGED <<poolVars, editVars, createVars, repoVars>>

\* a request: TaskService.Update, one conditional statement
OpUpdate ==
    /\ \E id \in Ids : \E title \in OpTitles : \E priority \in OpPriorities :
       \E version \in 1 .. MaxVersion :
         LET t == [id |-> id, title |-> title, priority |-> priority,
                   version |-> version] IN
         /\ id \notin locked
         /\ tasks[id].version < MaxVersion
         /\ tasks' = UpdateTable(t, now)
    /\ UNCHANGED <<nextId, idem, locked, now>>
    /\ UNCHANGED <<poolVars, editVars, createVars, repoVars>>

\* a request: TaskService.Delete of an existing row, DELETE FROM tasks WHERE
\* id = $1; it waits for a row lock held by a claim
OpDelete ==
    /\ \E id \in Ids :
         /\ id \notin locked
         /\ tasks' = [i \in Ids \ {id} |-> tasks[i]]
    /\ UNCHANGED <<nextId, idem, locked, now>>
    /\ UNCHANGED <<poolVars, editVars, createVars, repoVars>>

(* ------------------------------- states -------------------------------- *)
\* rows inserted one after the other by SeedTasks: ids 1..n, created_at
\* does not decrease with the id
SeedRows(n) ==
    {r \in [1 .. n -> [title : {SeedTitle}, priority : SeedPriorities,
                       status : {"pending"}, version : {InitialVersion},
                       created_at : SeedTimes, updated_at : SeedTimes]] :
        /\ \A i \in 1 .. n : r[i].updated_at = r[i].created_at
        /\ n > 0 => r[1].created_at = 0
        /\ \A i \in 1 .. n : \A j \in 1 .. n :
              i < j => r[i].created_at <= r[j].created_at}

LastCreated(r) == IF DOMAIN r = {} THEN 0 ELSE r[Cardinality(DOMAIN r)].created_at

InitStore(n) ==
    /\ tasks \in SeedRows(n)
    /\ nextId = n + 1
    /\ idem = <<>>
    /\ locked = {}
    /\ now = LastCreated(tasks)

InitPool ==
    /\ stop = FALSE
    /\ ctxDone = FALSE
    /\ wg = 0
    /\ mpc = "new"
    /\ mi = 0
    /\ atStop = {}
    /\ wpc = [w \in Workers |-> "off"]
    /\ wtask = [w \in Workers |-> NoTask]

InitEditors ==
    /\ epc = [e \in Editors |-> "idle"]
    /\ ereq = [e \in Editors |-> <<>>]
    /\ eres = [e \in Editors |-> "none"]

InitCreators ==
    /\ cpc = [c \in Creators |-> "idle"]
    /\ creq = [c \in Creators |-> <<>>]
    /\ cres = [c \in Creators |-> "none"]
    /\ cid = [c \in Creators |-> NoTask]

\* the zero value of model.Task
ZeroTask ==
    [id |-> 0, title |-> <<>>, status |-> "", priority |-> 0, version |-> 0,
     created_at |-> 0, updated_at |-> 0]

\* no call of TaskRepo made yet
NoCall ==
    [op |-> "none", id |-> 0, key |-> NoKey, task |-> ZeroTask, rid |-> 0,
     err |-> "nil"]

InitRepoClient == rcall = NoCall

\* no response written yet: no status code
NoStatus == 0

NoResponse == [op |-> "none", who |-> 0, err |-> "none", id |-> NoTask, code |-> NoStatus]

InitHandler == hres = NoResponse

\* the errors of the workers' loops are not recorded
InitUnobserved == werr = [w \in Workers |-> "unobserved"]

\* the errors of the workers' loops are recorded
InitObserved == werr = [w \in Workers |-> "none"]

(* --------------- the worker pool over a seeded store ------------------- *)
Init ==
    /\ InitStore(NumSeed)
    /\ InitPool
    /\ InitUnobserved
    /\ InitEditors
    /\ InitCreators
    /\ InitRepoClient
    /\ InitHandler

Next ==
    \/ Start
    \/ StartReturn
    \/ StopClose
    \/ StopWait
    \/ CtxCancel
    \/ \E w \in Workers : WorkerStop(w)
    \/ \E w \in Workers : WorkerCtxDone(w)
    \/ \E w \in Workers : WorkerTick(w)
    \/ \E w \in Workers : ClaimSelect(w)
    \/ \E w \in Workers : ClaimUpdate(w)
    \/ \E w \in Workers : Complete(w)
    \/ \E w \in Workers : Revert(w)

Spec == Init /\ [][Next]_vars

\* Scheduling: every goroutine that can take a step takes it in the end, every
\* store statement and every unit of work returns, and a select that is
\* entered again and again with a closed stop channel (or a cancelled
\* context) takes that case in the end: select picks among its ready cases
\* uniformly at random.
Fairness ==
    /\ WF_vars(StopWait)
    /\ \A w \in Workers :
          /\ SF_vars(WorkerStop(w))
          /\ SF_vars(WorkerCtxDone(w))
          /\ WF_vars(ClaimSelect(w))
          /\ WF_vars(ClaimUpdate(w))
          /\ WF_vars(Complete(w))
          /\ WF_vars(Revert(w))

\* SeedTasks: priority (i%10)+1 for the i-th row, all inserted at one time
InitLive ==
    /\ tasks = [id \in 1 .. NumSeed |-> NewRow(SeedTitle, ((id - 1) % 10) + 1, 0)]
    /\ nextId = NumSeed + 1
    /\ idem = <<>>
    /\ locked = {}
    /\ now = 0
    /\ InitPool
    /\ InitUnobserved
    /\ InitEditors
    /\ InitCreators
    /\ InitRepoClient
    /\ InitHandler

SpecLive == InitLive /\ [][Next]_vars /\ Fairness

(* ------------- concurrent editors of one task, no workers -------------- *)
InitEdit ==
    /\ InitStore(1)
    /\ InitPool
    /\ InitUnobserved
    /\ InitEditors
    /\ InitCreators
    /\ InitRepoClient
    /\ InitHandler

NextEdit ==
    \/ Tick
    \/ \E e \in Editors : EditorCall(e)
    \/ \E e \in Editors : Update(e)

SpecEdit == InitEdit /\ [][NextEdit]_vars

(* -- the worker pool, not stopped, and the requests of the service layer - *)
InitOps ==
    /\ InitStore(1)
    /\ InitPool
    /\ InitUnobserved
    /\ InitEditors
    /\ InitCreators
    /\ InitRepoClient
    /\ InitHandler

NextOps ==
    \/ Start
    \/ StartReturn
    \/ CtxCancel
    \/ \E w \in Workers : WorkerCtxDone(w)
    \/ \E w \in Workers : WorkerTick(w)
    \/ \E w \in Workers : ClaimSelect(w)
    \/ \E w \in Workers : ClaimUpdate(w)
    \/ \E w \in Workers : Complete(w)
    \/ \E w \in Workers : Revert(w)
    \/ OpCreate
    \/ OpUpdate
    \/ OpDelete

SpecOps == InitOps /\ [][NextOps]_vars

(* ----------- concurrent callers of Create on an empty store ------------ *)
InitIdem ==
    /\ InitStore(0)
    /\ InitPool
    /\ InitUnobserved
    /\ InitEditors
    /\ InitCreators
    /\ InitRepoClient
    /\ InitHandler

NextIdem ==
    \/ \E c \in Creators : CreateCall(c)
    \/ \E c \in Creators : CreateGetKey(c)
    \/ \E c \in Creators : CreateGet(c)
    \/ \E c \in Creators : CreateInsert(c)
    \/ \E c \in Creators : CreateSaveKey(c)

SpecIdem == InitIdem /\ [][NextIdem]_vars

(* ----------------------- a client of TaskRepo -------------------------- *)
RepoTitles == {<<"a">>, <<"b">>}
RepoPriorities == {1, 10}
RepoIds == 1 .. (MaxTasks + 1)
RepoKeys == {IdemKey}

\* Scan(&t.ID, &t.Title, &t.Status, &t.Priority, &t.Version, &t.CreatedAt,
\* &t.UpdatedAt) of the columns id, title, status, priority, version,
\* created_at, updated_at of a row
ScanTask(t, id, row) ==
    [t EXCEPT !.id = id, !.title = row.title, !.status = row.status,
              !.priority = row.priority, !.version = row.version,
              !.created_at = row.created_at, !.updated_at = row.updated_at]

\* a Create that returns the task it was given with the new id
CreateReturnsIdOnly(t, id, row) == [t EXCEPT !.id = id]

\* TaskRepo.Create: the task it returns, t after the Scan of RETURNING id,
\* title, status, priority, version, created_at, updated_at
CreateReturns(t, id, row) == ScanTask(t, id, row)

\* TaskRepo.Get: the task and the error it returns
GetReturns(id) == IF id \in Ids THEN ScanTask(ZeroTask, id, tasks[id]) ELSE ZeroTask

GetError(id) == IF id \in Ids THEN "nil" ELSE "notfound"

\* a DELETE that matches the rows up to the id
DeleteRowsUpTo(id) == {i \in Ids : i <= id}

\* DELETE FROM tasks WHERE id = $1: the rows it deletes
DeleteRows(id) == {i \in Ids : i = id}

\* TaskRepo.Create with a task that meets the CHECK constraints of the table
RepoCreate ==
    /\ nextId <= MaxTasks
    /\ \E title \in RepoTitles : \E priority \in RepoPriorities :
         LET t == [ZeroTask EXCEPT !.title = title, !.priority = priority]
             row == NewRow(title, priority, now)
         IN /\ tasks' = tasks @@ (nextId :> row)
            /\ rcall' = [op |-> "Create", id |-> 0, key |-> NoKey,
                         task |-> CreateReturns(t, nextId, row), rid |-> 0,
                         err |-> "nil"]
    /\ nextId' = nextId + 1
    /\ UNCHANGED <<idem, locked, now>>
    /\ UNCHANGED <<poolVars, editVars, createVars, hres>>

\* TaskRepo.Get
RepoGet ==
    /\ \E id \in RepoIds :
         rcall' = [op |-> "Get", id |-> id, key |-> NoKey, task |-> GetReturns(id),
                   rid |-> 0, err |-> GetError(id)]
    /\ UNCHANGED <<storeVars, poolVars, editVars, createVars, hres>>

\* TaskRepo.Delete
RepoDelete ==
    /\ \E id \in RepoIds :
         /\ tasks' = [i \in Ids \ DeleteRows(id) |-> tasks[i]]
         /\ rcall' = [op |-> "Delete", id |-> id, key |-> NoKey, task |-> ZeroTask,
                      rid |-> 0,
                      err |-> IF DeleteRows(id) = {} THEN "notfound" ELSE "nil"]
    /\ UNCHANGED <<nextId, idem, locked, now>>
    /\ UNCHANGED <<poolVars, editVars, createVars, hres>>

\* TaskRepo.SaveIdempotencyKey
RepoSaveKey ==
    /\ \E key \in RepoKeys : \E id \in RepoIds :
         /\ idem' = InsertKey(idem, key, id)
         /\ rcall' = [op |-> "SaveIdempotencyKey", id |-> id, key |-> key,
                      task |-> ZeroTask, rid |-> 0, err |-> "nil"]
    /\ UNCHANGED <<tasks, nextId, locked, now>>
    /\ UNCHANGED <<poolVars, editVars, createVars, hres>>

\* TaskRepo.GetIdempotencyKey
RepoGetKey ==
    /\ \E key \in RepoKeys :
         rcall' = [op |-> "GetIdempotencyKey", id |-> 0, key |-> key,
                   task |-> ZeroTask,
                   rid |-> IF key \in DOMAIN idem THEN idem[key] ELSE 0,
                   err |-> IF key \in DOMAIN idem THEN "nil" ELSE "notfound"]
    /\ UNCHANGED <<storeVars, poolVars, editVars, createVars, hres>>

InitRepo ==
    /\ InitStore(0)
    /\ InitPool
    /\ InitUnobserved
    /\ InitEditors
    /\ InitCreators
    /\ InitRepoClient
    /\ InitHandler

NextRepo ==
    \/ Tick
    \/ RepoCreate
    \/ RepoGet
    \/ RepoDelete
    \/ RepoSaveKey
    \/ RepoGetKey

SpecRepo == InitRepo /\ [][NextRepo]_vars

(* ------------------------- listing the tasks --------------------------- *)
DefaultLimit == 20
MaxLimit == 100

\* filter.Status = nil: the parameter $1 is NULL
NilStatus == "nil"

ListFilters == {NilStatus, "pending", "completed", "failed"}

\* the limits asked of TaskService.List and those given to TaskRepo.List
ServiceLimits == {-1, 0, 1, MaxLimit, MaxLimit + 1}
RepoLimits == {0, 1, 2, DefaultLimit}

\* a service that takes the largest limit for one out of range
ListLimitBelowMax(limit) ==
    IF limit <= 0 \/ limit >= MaxLimit THEN DefaultLimit ELSE limit

\* TaskService.List: if limit <= 0 || limit > 100 { limit = 20 }
ListLimit(limit) ==
    IF limit <= 0 \/ limit > MaxLimit THEN DefaultLimit ELSE limit

\* WHERE ($1::text IS NULL OR status = $1)
ListWhere(filter) ==
    {id \in Ids : filter = NilStatus \/ tasks[id].status = filter}

\* an ordering with the oldest row first
ListBeforeOldest(a, b) ==
    \/ tasks[a].created_at < tasks[b].created_at
    \/ tasks[a].created_at = tasks[b].created_at /\ a < b

\* ORDER BY created_at DESC, id DESC: row a comes before row b
ListBefore(a, b) ==
    \/ tasks[a].created_at > tasks[b].created_at
    \/ tasks[a].created_at = tasks[b].created_at /\ a > b

\* LIMIT $2 of the ordered rows, each scanned into a model.Task and appended
RECURSIVE ListRows(_, _)
ListRows(ids, limit) ==
    IF ids = {} \/ limit <= 0
    THEN <<>>
    ELSE LET first == CHOOSE a \in ids : \A b \in ids \ {a} : ListBefore(a, b)
         IN <<ScanTask(ZeroTask, first, tasks[first])>>
                \o ListRows(ids \ {first}, limit - 1)

\* TaskRepo.List
ListReturns(filter, limit) == ListRows(ListWhere(filter), limit)

ListCall(op, filter, asked, limit) ==
    [op |-> op, id |-> 0, key |-> NoKey, task |-> ZeroTask, rid |-> 0,
     err |-> "nil", filter |-> filter, asked |-> asked, limit |-> limit,
     list |-> ListReturns(filter, limit)]

\* TaskRepo.List called with a limit that is not negative
RepoList ==
    /\ \E filter \in ListFilters : \E limit \in RepoLimits :
         rcall' = ListCall("List", filter, limit, limit)
    /\ UNCHANGED <<storeVars, poolVars, editVars, createVars, hres>>

\* TaskService.List
ServiceList ==
    /\ \E filter \in ListFilters : \E limit \in ServiceLimits :
         rcall' = ListCall("Service.List", filter, limit, ListLimit(limit))
    /\ UNCHANGED <<storeVars, poolVars, editVars, createVars, hres>>

\* pool.Exec(ctx, "UPDATE tasks SET status = ... WHERE ...") of the tests
ExecSetStatus ==
    /\ \E id \in Ids : \E status \in {"processing", "completed"} :
         /\ tasks[id].status # status
         /\ tasks' = [tasks EXCEPT ![id].status = status]
    /\ UNCHANGED <<nextId, idem, locked, now>>
    /\ UNCHANGED <<poolVars, editVars, createVars, repoVars>>

InitList ==
    /\ InitStore(NumSeed)
    /\ InitPool
    /\ InitUnobserved
    /\ InitEditors
    /\ InitCreators
    /\ InitRepoClient
    /\ InitHandler

NextList ==
    \/ ExecSetStatus
    \/ RepoList
    \/ ServiceList

SpecList == InitList /\ [][NextList]_vars

(* ------------------ one call of the service, alone -------------------- *)
CallTitles == {<<>>, <<" ", "\t">>, <<"\n", "a", " ">>, <<"a", " ", "b">>}
CallPriorities == {0, 1, 10, 11}

\* the requests of TaskService.Create and of TaskService.Update
CallCreates == [title : CallTitles, priority : CallPriorities, key : CreateKeys]

CallUpdates ==
    [id : Ids, title : CallTitles, priority : CallPriorities, version : EditVersions]

\* no call of the service has been made
NoCallMade ==
    /\ \A c \in Creators : cpc[c] = "idle"
    /\ \A e \in Editors : epc[e] = "idle"

\* TaskService.Create is called
CallCreate(c) == NoCallMade /\ \E t \in CallCreates : CreateEnter(c, t)

\* a caller builds a task for TaskService.Update
CallUpdate(e) == NoCallMade /\ \E t \in CallUpdates : EditorEnter(e, t)

\* one task, created with the key or without a key
InitCall ==
    /\ tasks \in SeedRows(1)
    /\ nextId = 2
    /\ idem \in {<<>>, IdemKey :> 1}
    /\ locked = {}
    /\ now = 0
    /\ InitPool
    /\ InitUnobserved
    /\ InitEditors
    /\ InitCreators
    /\ InitRepoClient
    /\ InitHandler

NextCall ==
    \/ \E c \in Creators : CallCreate(c)
    \/ \E c \in Creators : CreateGetKey(c)
    \/ \E c \in Creators : CreateGet(c)
    \/ \E c \in Creators : CreateInsert(c)
    \/ \E c \in Creators : CreateSaveKey(c)
    \/ \E e \in Editors : CallUpdate(e)
    \/ \E e \in Editors : Update(e)

SpecCall == InitCall /\ [][NextCall]_vars

(* ----------- callers of Create, one call after the other --------------- *)
\* no call of TaskService.Create is in progress
NoCreateInProgress == \A c \in Creators : cpc[c] \in {"idle", "done"}

\* a caller calls TaskService.Create when every earlier call has returned
SeqCreateCall(c) == NoCreateInProgress /\ CreateCall(c)

InitSeq ==
    /\ InitStore(0)
    /\ InitPool
    /\ InitUnobserved
    /\ InitEditors
    /\ InitCreators
    /\ InitRepoClient
    /\ InitHandler

NextSeq ==
    \/ \E c \in Creators : SeqCreateCall(c)
    \/ \E c \in Creators : CreateGetKey(c)
    \/ \E c \in Creators : CreateGet(c)
    \/ \E c \in Creators : CreateInsert(c)
    \/ \E c \in Creators : CreateSaveKey(c)

SpecSeq == InitSeq /\ [][NextSeq]_vars

(* ------- editors of tasks that are deleted or were never created ------- *)
\* the tasks callers pass to TaskService.Update, for any id
StaleRequests ==
    [id : RepoIds, title : OpTitles, priority : OpPriorities, version : EditVersions]

\* a caller builds the task it will pass to TaskService.Update
StaleCall(e) == \E t \in StaleRequests : EditorEnter(e, t)

InitStale ==
    /\ InitStore(1)
    /\ InitPool
    /\ InitUnobserved
    /\ InitEditors
    /\ InitCreators
    /\ InitRepoClient
    /\ InitHandler

NextStale ==
    \/ \E e \in Editors : StaleCall(e)
    \/ \E e \in Editors : Update(e)
    \/ OpDelete

SpecStale == InitStale /\ [][NextStale]_vars

(* ------ the worker pool over one task, the errors of its loops --------- *)
InitWatch ==
    /\ InitStore(1)
    /\ InitPool
    /\ InitObserved
    /\ InitEditors
    /\ InitCreators
    /\ InitRepoClient
    /\ InitHandler

SpecWatch == InitWatch /\ [][Next]_vars

(* -- the worker pool left running: no Stop, no cancellation, fair loops -- *)
InitRun ==
    /\ tasks = [id \in 1 .. NumSeed |-> NewRow(SeedTitle, ((id - 1) % 10) + 1, 0)]
    /\ nextId = NumSeed + 1
    /\ idem = <<>>
    /\ locked = {}
    /\ now = 0
    /\ InitPool
    /\ InitObserved
    /\ InitEditors
    /\ InitCreators
    /\ InitRepoClient
    /\ InitHandler

NextRun ==
    \/ Start
    \/ StartReturn
    \/ \E w \in Workers : WorkerTick(w)
    \/ \E w \in Workers : ClaimSelect(w)
    \/ \E w \in Workers : ClaimUpdate(w)
    \/ \E w \in Workers : Complete(w)

\* Scheduling: Start runs to its end, the ticker of a worker fires every
\* second, so a loop that waits in its select with the stop channel open and
\* the context live takes a tick in the end, and every store statement and
\* every unit of work returns.
FairnessRun ==
    /\ WF_vars(Start)
    /\ WF_vars(StartReturn)
    /\ \A w \in Workers :
          /\ WF_vars(WorkerTick(w))
          /\ WF_vars(ClaimSelect(w))
          /\ WF_vars(ClaimUpdate(w))
          /\ WF_vars(Complete(w))

SpecRun == InitRun /\ [][NextRun]_vars /\ FairnessRun

(* ------------------------------ the stats ------------------------------ *)
\* CHECK (status IN ('pending', 'processing', 'completed'))
TaskStatuses == {"pending", "processing", "completed"}

\* a total that leaves the completed rows out
GetStatsReturnsOpen ==
    [by_status |-> [st \in TaskStatuses |->
                       Cardinality({id \in Ids : tasks[id].status = st})],
     total_tasks |-> Cardinality({id \in Ids : tasks[id].status # "completed"})]

\* Compute() -> Stats: grouped counts per status and a total count over the
\* current rows
GetStatsReturns ==
    [by_status |-> [st \in TaskStatuses |->
                       Cardinality({id \in Ids : tasks[id].status = st})],
     total_tasks |-> Cardinality(Ids)]

\* TaskRepo.GetStats, and TaskService.GetStats that returns what it returns
RepoGetStats ==
    /\ rcall' = [op |-> "GetStats", id |-> 0, key |-> NoKey, task |-> ZeroTask,
                 rid |-> 0, err |-> "nil", stats |-> GetStatsReturns]
    /\ rcall' # rcall
    /\ UNCHANGED <<storeVars, poolVars, editVars, createVars, hres>>

InitStats ==
    /\ InitStore(NumSeed)
    /\ InitPool
    /\ InitUnobserved
    /\ InitEditors
    /\ InitCreators
    /\ InitRepoClient
    /\ InitHandler

NextStats ==
    \/ ExecSetStatus
    \/ OpDelete
    \/ RepoGetStats

SpecStats == InitStats /\ [][NextStats]_vars

(* ------------- claimTask and completeTask called directly -------------- *)
\* claimTask called with no other statement in flight: one statement that
\* selects, updates and returns the row
DirectClaim ==
    /\ IF ClaimCandidates = {}
       THEN /\ rcall' = [op |-> "claimTask", id |-> 0, key |-> NoKey,
                         task |-> ZeroTask, rid |-> 0,
                         err |-> ClaimError(TRUE, ClaimCandidates), was |-> ""]
            /\ UNCHANGED tasks
       ELSE \E id \in ClaimFirst(ClaimCandidates) :
              /\ tasks' = [tasks EXCEPT ![id] = ClaimSet(@, now)]
              /\ rcall' = [op |-> "claimTask", id |-> 0, key |-> NoKey,
                           task |-> ScanTask(ZeroTask, id, ClaimSet(tasks[id], now)),
                           rid |-> 0, err |-> "nil", was |-> tasks[id].status]
    /\ rcall' # rcall
    /\ UNCHANGED <<nextId, idem, locked, now, hres>>
    /\ UNCHANGED <<poolVars, editVars, createVars>>

\* completeTask(id) called for any id
DirectComplete ==
    /\ \E id \in RepoIds :
         /\ tasks' = CompleteTable(id, now)
         /\ rcall' = [op |-> "completeTask", id |-> id, key |-> NoKey,
                      task |-> ZeroTask, rid |-> 0, err |-> "nil",
                      was |-> IF id \in Ids THEN tasks[id].status ELSE ""]
    /\ rcall' # rcall
    /\ UNCHANGED <<nextId, idem, locked, now, hres>>
    /\ UNCHANGED <<poolVars, editVars, createVars>>

InitDirect ==
    /\ InitStore(NumSeed)
    /\ InitPool
    /\ InitUnobserved
    /\ InitEditors
    /\ InitCreators
    /\ InitRepoClient
    /\ InitHandler

NextDirect ==
    \/ OpUpdate
    \/ DirectClaim
    \/ DirectComplete

SpecDirect == InitDirect /\ [][NextDirect]_vars

(* ------------- editors of a task whose status is changing -------------- *)
InitFrame ==
    /\ InitStore(1)
    /\ InitPool
    /\ InitUnobserved
    /\ InitEditors
    /\ InitCreators
    /\ InitRepoClient
    /\ InitHandler

NextFrame ==
    \/ Tick
    \/ ExecSetStatus
    \/ \E e \in Editors : StaleCall(e)
    \/ \E e \in Editors : Update(e)

SpecFrame == InitFrame /\ [][NextFrame]_vars

(* ---- a pool with more tasks than workers, stopped but never cancelled -- *)
InitCalm ==
    /\ tasks = [id \in 1 .. (NumWorkers + 1) |->
                   NewRow(SeedTitle, ((id - 1) % 10) + 1, 0)]
    /\ nextId = NumWorkers + 2
    /\ idem = <<>>
    /\ locked = {}
    /\ now = 0
    /\ InitPool
    /\ InitUnobserved
    /\ InitEditors
    /\ InitCreators
    /\ InitRepoClient
    /\ InitHandler

NextCalm ==
    \/ Start
    \/ StartReturn
    \/ StopClose
    \/ StopWait
    \/ \E w \in Workers : WorkerStop(w)
    \/ \E w \in Workers : WorkerTick(w)
    \/ \E w \in Workers : ClaimSelect(w)
    \/ \E w \in Workers : ClaimUpdate(w)
    \/ \E w \in Workers : Complete(w)

SpecCalm == InitCalm /\ [][NextCalm]_vars

(* ------------- concurrent Creates while tasks are deleted -------------- *)
NextGone ==
    \/ \E c \in Creators : CreateCall(c)
    \/ \E c \in Creators : CreateGetKey(c)
    \/ \E c \in Creators : CreateGet(c)
    \/ \E c \in Creators : CreateInsert(c)
    \/ \E c \in Creators : CreateSaveKey(c)
    \/ OpDelete

SpecGone == InitIdem /\ [][NextGone]_vars

(* -------- Creates one after the other with saves that can fail -------- *)
\* a Create that returns the error of SaveIdempotencyKey
CreateAfterSaveChecked(failed) == IF failed THEN "internal" ELSE "ok"

\* TaskService.Create: s.repo.SaveIdempotencyKey(...) as a statement whose
\* error is dropped, then return resource, nil
CreateAfterSave(failed) == "ok"

\* TaskService.Create: SaveIdempotencyKey fails in the store, or the process
\* stops between the INSERT of the task and the save: nothing is stored
CreateSaveKeyFails(c) ==
    /\ cpc[c] = "savekey"
    /\ cpc' = [cpc EXCEPT ![c] = "done"]
    /\ cres' = [cres EXCEPT ![c] = CreateAfterSave(TRUE)]
    /\ UNCHANGED <<creq, cid>>
    /\ UNCHANGED <<storeVars, poolVars, editVars, repoVars>>

NextLost ==
    \/ \E c \in Creators : SeqCreateCall(c)
    \/ \E c \in Creators : CreateGetKey(c)
    \/ \E c \in Creators : CreateGet(c)
    \/ \E c \in Creators : CreateInsert(c)
    \/ \E c \in Creators : CreateSaveKey(c)
    \/ \E c \in Creators : CreateSaveKeyFails(c)

SpecLost == InitSeq /\ [][NextLost]_vars

(* ------------- a pool whose tasks are deleted under it ----------------- *)
NextVanish ==
    \/ Start
    \/ StartReturn
    \/ CtxCancel
    \/ \E w \in Workers : WorkerCtxDone(w)
    \/ \E w \in Workers : WorkerTick(w)
    \/ \E w \in Workers : ClaimSelect(w)
    \/ \E w \in Workers : ClaimUpdate(w)
    \/ \E w \in Workers : Complete(w)
    \/ \E w \in Workers : Revert(w)
    \/ OpDelete

SpecVanish == InitWatch /\ [][NextVanish]_vars

(* --------------------- a pool that is stopped twice -------------------- *)
NextTwice ==
    \/ Start
    \/ StartReturn
    \/ StopClose
    \/ StopWait
    \/ StopAgain
    \/ CtxCancel
    \/ \E w \in Workers : WorkerStop(w)
    \/ \E w \in Workers : WorkerCtxDone(w)
    \/ \E w \in Workers : WorkerTick(w)
    \/ \E w \in Workers : ClaimSelect(w)
    \/ \E w \in Workers : ClaimUpdate(w)
    \/ \E w \in Workers : Complete(w)
    \/ \E w \in Workers : Revert(w)

SpecTwice == InitOps /\ [][NextTwice]_vars

(* -------------------------- the request layer -------------------------- *)
StatusOK == 200
StatusCreated == 201
StatusNoContent == 204
StatusBadRequest == 400
StatusNotFound == 404
StatusConflict == 409
StatusInternalServerError == 500

\* a switch without the case of repo.ErrorConflict
handleErrorsNoConflict(err) ==
    CASE err = "notfound" -> StatusNotFound
      [] err = "validation" -> StatusBadRequest
      [] OTHER -> StatusInternalServerError

\* TaskHandler.handleErrors: the status code it writes for an error
handleErrors(err) ==
    CASE err = "notfound" -> StatusNotFound
      [] err = "conflict" -> StatusConflict
      [] err = "validation" -> StatusBadRequest
      [] OTHER -> StatusInternalServerError

\* the bodies of the requests the handlers cannot decode
BadBodies == {"empty", "invalid"}

\* the tasks and keys of the requests POST /api/tasks
HttpCreates == [title : OpTitles, priority : {0, 5}, key : CreateKeys]

\* the tasks of the requests PUT /api/tasks/{id}
HttpUpdates ==
    [id : RepoIds, title : OpTitles, priority : {8, 11}, version : {InitialVersion}]

\* the requests are served one after the other, as the tests send them
NoRequestInProgress == \A c \in Creators : cpc[c] \in {"idle", "responded"}

\* TaskHandler.Create with an empty body or one that is not JSON: 400, and
\* the service is not called
HandlerCreateBad(c) ==
    /\ NoRequestInProgress
    /\ cpc[c] = "idle"
    /\ \E body \in BadBodies :
         hres' = [op |-> "Create", who |-> c, err |-> body, id |-> NoTask,
                  code |-> StatusBadRequest]
    /\ cpc' = [cpc EXCEPT ![c] = "responded"]
    /\ UNCHANGED <<creq, cres, cid, rcall>>
    /\ UNCHANGED <<storeVars, poolVars, editVars>>

\* TaskHandler.Create with a body it decodes: h.service.Create is called
HandlerCreateCall(c) ==
    /\ NoRequestInProgress
    /\ \E t \in HttpCreates : CreateEnter(c, t)

\* TaskHandler.Create after h.service.Create has returned: handleErrors, or
\* the Location header and respond.JSON(w, r, http.StatusCreated, task)
HandlerCreateRespond(c) ==
    /\ cpc[c] = "done"
    /\ hres' = [op |-> "Create", who |-> c, err |-> cres[c],
                id |-> IF cres[c] = "ok" THEN cid[c] ELSE NoTask,
                code |-> IF cres[c] = "ok" THEN StatusCreated
                         ELSE handleErrors(cres[c])]
    /\ cpc' = [cpc EXCEPT ![c] = "responded"]
    /\ UNCHANGED <<creq, cres, cid, rcall>>
    /\ UNCHANGED <<storeVars, poolVars, editVars>>

\* TaskHandler.Update: decode, h.service.Update (one statement), respond
HandlerUpdate ==
    /\ NoRequestInProgress
    /\ \/ /\ hres' = [op |-> "Update", who |-> 0, err |-> "invalid", id |-> NoTask,
                      code |-> StatusBadRequest]
          /\ UNCHANGED tasks
       \/ \E t \in HttpUpdates :
            /\ tasks' = UpdateTable(t, now)
            /\ hres' = [op |-> "Update", who |-> 0, err |-> UpdateError(t),
                        id |-> t.id,
                        code |-> IF UpdateError(t) = "ok" THEN StatusOK
                                 ELSE handleErrors(UpdateError(t))]
    /\ UNCHANGED <<nextId, idem, locked, now, rcall>>
    /\ UNCHANGED <<poolVars, editVars, createVars>>

\* TaskRepo.Delete: the error it returns; the statement may fail in the
\* store, and the error of Exec is returned as it is
DeleteError(id, failed) ==
    IF failed THEN "internal"
    ELSE IF DeleteRows(id) = {} THEN "notfound" ELSE "ok"

\* TaskHandler.Delete: h.service.Delete, then handleErrors or 204
HandlerDelete ==
    /\ NoRequestInProgress
    /\ \E id \in RepoIds : \E failed \in BOOLEAN :
         /\ tasks' = IF failed THEN tasks ELSE [i \in Ids \ DeleteRows(id) |-> tasks[i]]
         /\ hres' = [op |-> "Delete", who |-> 0, err |-> DeleteError(id, failed),
                     id |-> id,
                     code |-> IF DeleteError(id, failed) = "ok" THEN StatusNoContent
                              ELSE handleErrors(DeleteError(id, failed))]
    /\ UNCHANGED <<nextId, idem, locked, now, rcall>>
    /\ UNCHANGED <<poolVars, editVars, createVars>>

InitHttp ==
    /\ InitStore(0)
    /\ InitPool
    /\ InitUnobserved
    /\ InitEditors
    /\ InitCreators
    /\ InitRepoClient
    /\ InitHandler

NextHttp ==
    \/ \E c \in Creators : HandlerCreateBad(c)
    \/ \E c \in Creators : HandlerCreateCall(c)
    \/ \E c \in Creators : CreateGetKey(c)
    \/ \E c \in Creators : CreateGet(c)
    \/ \E c \in Creators : CreateInsert(c)
    \/ \E c \in Creators : CreateSaveKey(c)
    \/ \E c \in Creators : HandlerCreateRespond(c)
    \/ HandlerUpdate
    \/ HandlerDelete

SpecHttp == InitHttp /\ [][NextHttp]_vars

(* ---- the pool and an updating client while the store's clock runs ----- *)
InitClock ==
    /\ InitStore(1)
    /\ InitPool
    /\ InitUnobserved
    /\ InitEditors
    /\ InitCreators
    /\ InitRepoClient
    /\ InitHandler

NextClock ==
    \/ Tick
    \/ OpUpdate
    \/ Start
    \/ StartReturn
    \/ CtxCancel
    \/ \E w \in Workers : WorkerCtxDone(w)
    \/ \E w \in Workers : WorkerTick(w)
    \/ \E w \in Workers : ClaimSelect(w)
    \/ \E w \in Workers : ClaimUpdate(w)
    \/ \E w \in Workers : Complete(w)
    \/ \E w \in Workers : Revert(w)

SpecClock == InitClock /\ [][NextClock]_vars

(* ------------------------------ the claims ----------------------------- *)
\* the worker holds a task its claim returned and has not yet completed or reverted
Holds(w) == wpc[w] = "work"

\* the step in which the claim statement of w returns a row to w
ClaimReturns(w) == wpc[w] = "claim_update" /\ wpc'[w] = "work"

\* the step in which the claim statement of w selects and locks a row
ClaimSelects(w) == wpc[w] = "claim" /\ wpc'[w] = "claim_update"

\* C1: every Claim that returns a task is a pending -> processing transition
\* of its own: the returned row is pending when the statement updates it, is
\* processing afterwards, and no other worker holds or has locked that row.
C1_ClaimOnce ==
    [][\A w \in Workers : ClaimReturns(w) =>
          /\ wtask[w] \in Ids
          /\ tasks[wtask[w]].status = "pending"
          /\ tasks'[wtask[w]].status = "processing"
          /\ \A o \in Workers \ {w} :
                (Holds(o) \/ wpc[o] = "claim_update") => wtask[o] # wtask[w]]_vars

\* two workers hold two different tasks at once
C1_Witness ==
    \E w \in Workers : \E o \in Workers \ {w} :
        Holds(w) /\ Holds(o) /\ wtask[w] # wtask[o]

\* C6: the row a Claim selects is, among the pending rows that no in-flight
\* claim has locked, one of highest priority and, among those of that
\* priority, one of earliest creation time; when every row is still pending
\* and unlocked it has the highest priority of all rows.
C6_ClaimOrder ==
    [][\A w \in Workers : ClaimSelects(w) =>
          LET id == wtask'[w] IN
          /\ id \in Ids
          /\ tasks[id].status = "pending"
          /\ id \notin locked
          /\ \A o \in Ids :
                (tasks[o].status = "pending" /\ o \notin locked) =>
                   \/ tasks[o].priority < tasks[id].priority
                   \/ /\ tasks[o].priority = tasks[id].priority
                      /\ tasks[o].created_at >= tasks[id].created_at
          /\ (locked = {} /\ \A o \in Ids : tasks[o].status = "pending") =>
                \A o \in Ids : tasks[o].priority <= tasks[id].priority]_vars

\* a claim has selected a row while a row of the same priority, created
\* later, is pending and unlocked
C6_Witness ==
    \E w \in Workers :
        /\ wpc[w] = "claim_update"
        /\ \E o \in Ids :
              /\ tasks[o].status = "pending" /\ o \notin locked
              /\ tasks[o].priority = tasks[wtask[w]].priority
              /\ tasks[o].created_at > tasks[wtask[w]].created_at

\* C8: when Stop has returned, every worker goroutine has run to its end.
C8_StopJoins == mpc = "stopped" => \A w \in Workers : wpc[w] = "exited"

\* Stop has returned on a pool that had a task in processing when it was called
C8_Witness == mpc = "stopped" /\ atStop # {}

\* C9: once the stop channel is closed, no worker loop calls processNext (and
\* with it claimTask) any more.
C9_NoClaimAfterStop ==
    [][\A w \in Workers : (stop /\ wpc[w] = "select") => wpc'[w] # "claim"]_vars
\* C10: a Stop called while some task is in processing returns in the end.
C10_StopReturns == (mpc = "waiting" /\ atStop # {}) ~> (mpc = "stopped")

\* Stop has returned after a call made while two tasks were in processing
C10_Witness == mpc = "stopped" /\ Cardinality(atStop) >= 2
\* C2: when all the concurrent Create calls have returned, all made with valid
\* tasks and the same non-empty key, they have returned the same task id and
\* the tasks table holds exactly one row.
C2_OneTaskPerKey ==
    (\A c \in Creators :
        cpc[c] = "done" /\ creq[c].key = IdemKey /\ validate(creq[c])) =>
            /\ \A c \in Creators : \A d \in Creators : cid[c] = cid[d]
            /\ Cardinality(Ids) = 1

\* the step in which the Update of editor e is executed
Updates(e) == epc[e] = "call" /\ epc'[e] = "done"

\* C3: an Update that reaches the store succeeds if and only if the version
\* it supplies is the stored one; a successful Update stores the supplied
\* title and priority and adds exactly 1 to the stored version.
C3_UpdateIffVersion ==
    [][\A e \in Editors : (Updates(e) /\ validate(ereq[e])) =>
          LET t == ereq[e] IN
          /\ (eres'[e] = "ok") <=> (t.id \in Ids /\ tasks[t.id].version = t.version)
          /\ eres'[e] \in {"ok", "conflict"}
          /\ eres'[e] = "ok" =>
                /\ tasks'[t.id].title = t.title
                /\ tasks'[t.id].priority = t.priority
                /\ tasks'[t.id].version = tasks[t.id].version + 1]_vars

\* an Update has succeeded on a task that an earlier Update had already changed
C3_Witness ==
    \E e \in Editors :
        /\ epc[e] = "done" /\ eres[e] = "ok"
        /\ ereq[e].version = InitialVersion + 1
        /\ tasks[ereq[e].id].version = InitialVersion + 2

\* every editor has made its Update, all of them valid and with the version
\* the task was created with
AllSameVersion ==
    \A e \in Editors :
        /\ epc[e] = "done"
        /\ validate(ereq[e])
        /\ ereq[e].id = 1
        /\ ereq[e].version = InitialVersion

\* C4: when all the concurrent Updates of one task supply the version it had
\* at first, exactly one succeeds, the others return Conflict, and the stored
\* version is that version plus 1.
C4_OneWinner ==
    AllSameVersion =>
        /\ Cardinality({e \in Editors : eres[e] = "ok"}) = 1
        /\ Cardinality({e \in Editors : eres[e] = "conflict"}) = NumEditors - 1
        /\ tasks[1].version = InitialVersion + 1

\* all editors are done, with the same version and different titles or priorities
C4_Witness ==
    /\ AllSameVersion
    /\ \E e \in Editors : \E o \in Editors :
          ereq[e].priority # ereq[o].priority

\* C5: an Update that supplies a version other than the stored one returns
\* Conflict and changes nothing in the tasks table.
C5_ConflictNoChange ==
    [][\A e \in Editors :
          (/\ Updates(e)
           /\ validate(ereq[e])
           /\ ereq[e].id \in Ids
           /\ tasks[ereq[e].id].version # ereq[e].version) =>
              /\ eres'[e] = "conflict"
              /\ tasks' = tasks]_vars

\* an Update was refused at a time later than the row's updated_at, with a
\* title and a priority other than the stored ones
C5_Witness ==
    \E e \in Editors :
        /\ epc[e] = "done" /\ eres[e] = "conflict"
        /\ tasks[ereq[e].id].updated_at < now
        /\ tasks[ereq[e].id].title # ereq[e].title
        /\ tasks[ereq[e].id].priority # ereq[e].priority
\* the step in which worker w completes or reverts the task it holds
Finishes(w) == wpc[w] = "work" /\ wpc'[w] = "select"

\* C7: a row is created pending under an id never used before; the status of
\* a row changes only from pending to processing in the step a claim returns
\* it, from processing to completed in the step its holder completes it, and
\* from processing to pending in the step its holder reverts it; a completed
\* row stays completed for as long as it exists.
C7_StatusTransitions ==
    [][/\ \A id \in Ids' \ Ids :
             tasks'[id].status = "pending" /\ id = nextId /\ nextId' > nextId
       /\ \A id \in Ids \cap Ids' :
             tasks'[id].status # tasks[id].status =>
               \E w \in Workers :
                 /\ wtask[w] = id
                 /\ \/ /\ ClaimReturns(w)
                       /\ tasks[id].status = "pending"
                       /\ tasks'[id].status = "processing"
                    \/ /\ Finishes(w)
                       /\ tasks[id].status = "processing"
                       /\ tasks'[id].status = "completed"
                    \/ /\ Finishes(w) /\ ctxDone
                       /\ tasks[id].status = "processing"
                       /\ tasks'[id].status = "pending"]_vars

\* a task that was updated is completed, after another row was deleted while
\* a worker's context was cancelled
C7_Witness ==
    /\ ctxDone
    /\ Cardinality(Ids) < nextId - 1
    /\ \E id \in Ids :
          tasks[id].status = "completed" /\ tasks[id].version > InitialVersion

\* C11: when Stop has returned, every task that was in processing at the
\* moment Stop was called is pending.
C11_PendingAfterStop ==
    mpc = "stopped" => \A id \in atStop : tasks[id].status = "pending"

\* C12: when Stop has returned, no task is in processing: every task is
\* completed or pending.
C12_NoneProcessingAfterStop ==
    mpc = "stopped" => \A id \in Ids : tasks[id].status \in {"completed", "pending"}

\* the step in which processNext of w returns after the claim gave it a task
ProcessNextReturns(w) == wpc[w] = "work" /\ wpc'[w] # "work"

\* C13: when processNext returns for a task whose unit of work was in flight
\* while the context was cancelled, that task is pending.
C13_PendingAfterCancel ==
    [][\A w \in Workers : (ProcessNextReturns(w) /\ ctxDone) =>
          tasks'[wtask[w]].status = "pending"]_vars

\* the callers whose Create has returned, made with a valid task and key k
Returned(k) ==
    {c \in Creators : cpc[c] = "done" /\ validate(creq[c]) /\ creq[c].key = k}

\* C14: when the Create calls are made one after the other, every Create with
\* a valid task and the key returns the task the key is mapped to, which is
\* the task the first of them created, whatever its own title and priority,
\* and all of them together have added one row to the tasks table.
C14_SameTaskForKey ==
    NoCreateInProgress =>
        /\ \A c \in Returned(IdemKey) :
              /\ cres[c] = "ok"
              /\ cid[c] \in Ids
              /\ IdemKey \in DOMAIN idem /\ cid[c] = idem[IdemKey]
        /\ Cardinality(Ids) =
              Cardinality(Returned(NoKey)) + (IF Returned(IdemKey) = {} THEN 0 ELSE 1)

\* two Create calls with the key have returned, one after the other, with
\* different titles, and the second has returned the task of the first
C14_Witness ==
    \E c \in Creators : \E d \in Creators :
        /\ c \in Returned(IdemKey) /\ d \in Returned(IdemKey)
        /\ creq[c].title # creq[d].title
        /\ cid[c] = cid[d]
        /\ tasks[cid[d]].title = creq[c].title
        /\ Cardinality(Ids) = 1

\* the step in which caller c enters Create with a valid task and no key
EntersWithoutKey(c) ==
    cpc[c] = "idle" /\ cpc'[c] # "idle" /\ creq'[c].key = NoKey /\ validate(creq'[c])

\* the step that ends the repo.Create of a call made with no key
InsertsWithoutKey(c) ==
    cpc[c] = "insert" /\ cpc'[c] # "insert" /\ creq[c].key = NoKey

\* C15: a Create called with a valid task and the empty key goes to
\* repo.Create without looking a key up; its repo.Create adds one row, with
\* the title and priority of the request and an id that no row has and no
\* call has returned before, leaves the other rows and the idempotency
\* entries as they are, and the call returns that row with no error; such a
\* call is never at the lookup, the Get of a stored id or the save of a key.
C15_NoKeyCreates ==
    [][\A c \in Creators :
          /\ EntersWithoutKey(c) =>
                cpc'[c] = "insert" /\ tasks' = tasks /\ idem' = idem
          /\ InsertsWithoutKey(c) =>
                /\ cpc'[c] = "done" /\ cres'[c] = "ok"
                /\ cid'[c] \notin Ids
                /\ \A d \in Creators : cid[d] # cid'[c]
                /\ Ids' = Ids \cup {cid'[c]}
                /\ \A id \in Ids : tasks'[id] = tasks[id]
                /\ tasks'[cid'[c]].title = creq[c].title
                /\ tasks'[cid'[c]].priority = creq[c].priority
                /\ idem' = idem
          /\ (cpc'[c] \in {"getkey", "get", "savekey"}) => creq'[c].key # NoKey]_vars

\* two calls with no key and the same task have returned two different rows,
\* and no idempotency entry exists
C15_Witness ==
    \E c \in Creators : \E d \in Creators :
        /\ c \in Returned(NoKey) /\ d \in Returned(NoKey)
        /\ creq[c] = creq[d]
        /\ cid[c] # cid[d] /\ {cid[c], cid[d]} \subseteq Ids
        /\ idem = <<>>

\* the step is a call of operation op of TaskRepo
Calls(op) == rcall' # rcall /\ rcall'.op = op

\* C16: an idempotency entry, once stored, is stored for ever with the same
\* resource id; SaveIdempotencyKey returns no error whether or not the key is
\* stored already, and stores the resource id it is given only when the key
\* is not stored yet.
C16_WriteOnce ==
    [][/\ \A k \in DOMAIN idem : k \in DOMAIN idem' /\ idem'[k] = idem[k]
       /\ Calls("SaveIdempotencyKey") =>
             /\ rcall'.err = "nil"
             /\ rcall'.key \in DOMAIN idem'
             /\ rcall'.key \notin DOMAIN idem => idem'[rcall'.key] = rcall'.id]_vars

\* SaveIdempotencyKey has returned for a key stored with another resource
\* id, whose task has been deleted
C16_Witness ==
    /\ rcall.op = "SaveIdempotencyKey"
    /\ rcall.key \in DOMAIN idem
    /\ idem[rcall.key] # rcall.id
    /\ idem[rcall.key] < nextId /\ idem[rcall.key] \notin Ids

\* C18: a Create adds one row to the tasks table, with status pending and
\* version 1, under an id that is not the id of any task created before:
\* those ids are the ones below the next value of the id sequence.
C18_CreatedRow ==
    [][Calls("Create") =>
          LET id == rcall'.task.id IN
          /\ rcall'.err = "nil"
          /\ Ids' = Ids \cup {id}
          /\ id \notin Ids
          /\ id \notin 1 .. (nextId - 1)
          /\ tasks'[id].status = "pending"
          /\ tasks'[id].version = 1]_vars

\* Create has returned a task after the row created before it was deleted:
\* the id of the deleted row is not given again
C18_Witness ==
    /\ rcall.op = "Create"
    /\ rcall.task.id = 2
    /\ Ids = {2}
    /\ tasks[2].status = "pending"

\* tasks a and b are equal in id, title, priority, status, version and created_at
SameTask(a, b) ==
    /\ a.id = b.id
    /\ a.title = b.title
    /\ a.priority = b.priority
    /\ a.status = b.status
    /\ a.version = b.version
    /\ a.created_at = b.created_at

\* C19: a Get of the id of the task that the call just before it, a Create,
\* returned, returns no error and a task equal to the returned one in id,
\* title, priority, status, version and created_at; a Get of an id that has
\* no row returns NotFound.
C19_CreateGetRoundTrip ==
    [][Calls("Get") =>
          /\ (rcall.op = "Create" /\ rcall.err = "nil" /\ rcall'.id = rcall.task.id) =>
                rcall'.err = "nil" /\ SameTask(rcall'.task, rcall.task)
          /\ (rcall'.id \notin Ids) => rcall'.err = "notfound"]_vars

\* a Get has returned the second task created, at a time later than its
\* creation, while the first task created differs from it in title and priority
C19_Witness ==
    /\ rcall.op = "Get" /\ rcall.err = "nil"
    /\ rcall.id = 2
    /\ rcall.task.status = "pending"
    /\ rcall.task.version = InitialVersion
    /\ rcall.task.created_at < now
    /\ 1 \in Ids
    /\ tasks[1].title # rcall.task.title
    /\ tasks[1].priority # rcall.task.priority

\* C20: a Delete of the id of a row returns no error and removes that row and
\* no other; a Delete of an id that has no row returns NotFound and removes
\* nothing; in both cases the other rows and the idempotency entries stay as
\* they are. An id whose row is gone gets no row again, and a Get of the id
\* that the call just before it deleted returns NotFound.
C20_DeleteExactly ==
    [][/\ Calls("Delete") =>
             LET id == rcall'.id IN
             /\ rcall'.err = IF id \in Ids THEN "nil" ELSE "notfound"
             /\ Ids' = Ids \ {id}
             /\ \A o \in Ids' : tasks'[o] = tasks[o]
             /\ idem' = idem
       /\ \A id \in 1 .. (nextId - 1) : id \notin Ids => id \notin Ids'
       /\ (Calls("Get") /\ rcall.op = "Delete" /\ rcall.err = "nil"
           /\ rcall'.id = rcall.id) => rcall'.err = "notfound"]_vars

\* a Get has returned NotFound for the id of a deleted row, while a row
\* created after it and the idempotency entry of the deleted row are there
C20_Witness ==
    /\ rcall.op = "Get" /\ rcall.err = "notfound"
    /\ rcall.id = 1 /\ nextId > 1
    /\ 2 \in Ids
    /\ IdemKey \in DOMAIN idem /\ idem[IdemKey] = 1

\* the title has no character other than white space
Blank(title) == \A i \in 1 .. Len(title) : title[i] \in WhiteSpace

\* the title is empty after trimming or the priority is outside [1,10]
Invalid(t) == Blank(t.title) \/ t.priority < 1 \/ t.priority > 10

\* C17: a Create returns ValidationError exactly when the title of its task
\* is empty after trimming or its priority is outside [1,10], and then it
\* returns at once, without a step of the repository and with the store as
\* it was, whatever the key; otherwise it goes on to the repository. An
\* Update returns ValidationError exactly in the same case, rather than the
\* Conflict or the success the repository would give, and then the store is
\* as it was.
C17_ValidationError ==
    [][/\ \A c \in Creators : (cpc[c] = "idle" /\ cpc'[c] # "idle") =>
             IF Invalid(creq'[c])
             THEN /\ cpc'[c] = "done" /\ cres'[c] = "validation"
                  /\ tasks' = tasks /\ nextId' = nextId /\ idem' = idem
             ELSE cpc'[c] \in {"getkey", "insert"} /\ cres'[c] # "validation"
       /\ \A c \in Creators : (cpc[c] # "idle" /\ cpc'[c] = "done") =>
             cres'[c] # "validation"
       /\ \A e \in Editors : Updates(e) =>
             /\ eres'[e] = "validation" <=> Invalid(ereq[e])
             /\ Invalid(ereq[e]) =>
                   tasks' = tasks /\ nextId' = nextId /\ idem' = idem]_vars

\* a Create with a title that has a letter between white space, priority 11
\* and a key that is mapped to a task has returned ValidationError
C17_Witness ==
    \E c \in Creators :
        /\ cpc[c] = "done" /\ cres[c] = "validation"
        /\ ~Blank(creq[c].title) /\ creq[c].title # TrimSpace(creq[c].title)
        /\ creq[c].priority = 11
        /\ creq[c].key \in DOMAIN idem

\* C21: an Update with a valid task whose id has no row, because no task was
\* created under it or because its row was deleted, returns Conflict and
\* leaves the tasks table as it is, without a row for that id.
C21_UpdateMissingRow ==
    [][\A e \in Editors :
          (Updates(e) /\ validate(ereq[e]) /\ ereq[e].id \notin Ids) =>
              /\ eres'[e] = "conflict"
              /\ tasks' = tasks
              /\ ereq[e].id \notin Ids']_vars

\* an Update of the deleted task, built before the Delete with the version
\* the row had, and an Update of an id never given out have both returned
\* Conflict
C21_Witness ==
    \E e \in Editors : \E f \in Editors :
        /\ epc[e] = "done" /\ eres[e] = "conflict"
        /\ ereq[e].id < nextId /\ ereq[e].id \notin Ids
        /\ ereq[e].version = InitialVersion
        /\ epc[f] = "done" /\ eres[f] = "conflict"
        /\ ereq[f].id >= nextId

\* the step in which the claim statement of w is issued: it selects and locks
\* a row, or it returns without a row
ClaimIssued(w) == wpc[w] = "claim" /\ wpc'[w] # "claim"

\* C22: a Claim issued when no pending row is free of a lock returns to the
\* loop without a task and changes no row and no lock, and what it returns is
\* pgx.ErrNoRows unless the statement itself failed on the cancelled context;
\* a Claim returns pgx.ErrNoRows only if, when it is issued, no pending row
\* is free of the lock of another claim in flight.
C22_NoneAvailable ==
    [][\A w \in Workers : ClaimIssued(w) =>
          /\ ClaimCandidates = {} =>
                /\ wpc'[w] = "select" /\ wtask'[w] = NoTask
                /\ tasks' = tasks /\ locked' = locked
                /\ werr'[w] = "norows" \/ (ctxDone /\ werr'[w] = "claim")
          /\ (ClaimCandidates = {} /\ ~ctxDone) => werr'[w] = "norows"
          /\ werr'[w] = "norows" => ClaimCandidates = {}]_vars

\* a Claim has returned pgx.ErrNoRows while the only pending row is locked by
\* the claim of another worker, which is still in flight
C22_Witness ==
    \E w \in Workers : \E o \in Workers \ {w} :
        /\ werr[w] = "norows" /\ wpc[w] = "select"
        /\ wpc[o] = "claim_update"
        /\ wtask[o] \in locked
        /\ tasks[wtask[o]].status = "pending"

\* C23: with workers that keep calling Claim and no other writer, every task
\* that is pending is claimed in the end: none stays pending for ever.
C23_NoneSkipped ==
    \A id \in 1 .. NumSeed :
        (tasks[id].status = "pending") ~> (tasks[id].status # "pending")

\* every task has been claimed, one is still being processed, and a Claim
\* issued after that has returned pgx.ErrNoRows
C23_Witness ==
    /\ \A id \in Ids : tasks[id].status # "pending"
    /\ \E id \in Ids : tasks[id].status = "processing"
    /\ \E w \in Workers : werr[w] = "norows"

\* C24: with fair worker loops, no store error, no cancellation and no Stop,
\* every task that is pending is completed in the end.
C24_AllCompleted ==
    \A id \in 1 .. NumSeed :
        (tasks[id].status = "pending") ~> (tasks[id].status = "completed")

\* every task is completed and every worker is back in its loop
C24_Witness ==
    /\ \A id \in Ids : tasks[id].status = "completed"
    /\ \A w \in Workers : wpc[w] \in {"select", "claim"}
    /\ mpc = "running"

\* C25: the limit TaskService.List gives to the repository is in 1..100: a
\* limit asked in 1..100 is given as it is, one that is <= 0 or > 100 is
\* given as 20.
C25_ServiceLimit ==
    rcall.op = "Service.List" =>
        /\ rcall.limit \in 1 .. 100
        /\ rcall.asked \in 1 .. 100 => rcall.limit = rcall.asked
        /\ (rcall.asked <= 0 \/ rcall.asked > 100) => rcall.limit = 20

\* the largest limit in range was asked and given
C25_Witness ==
    /\ rcall.op = "Service.List"
    /\ rcall.asked = 100
    /\ rcall.limit = 100

Lists == rcall' # rcall /\ rcall'.op \in {"List", "Service.List"}

Matches(id, filter) == filter = NilStatus \/ tasks[id].status = filter

Listed(list) == {list[i].id : i \in 1 .. Len(list)}

\* C26: TaskRepo.List returns at most limit tasks, all with the status of
\* the filter when one is given, newest first (created_at descending, then
\* id descending), the first limit rows of that order, and changes no row.
C26_ListResult ==
    [][Lists =>
         LET list == rcall'.list
             filter == rcall'.filter
             limit == rcall'.limit
         IN /\ Len(list) <= limit
            /\ \A i \in 1 .. Len(list) :
                  /\ list[i].id \in Ids
                  /\ Matches(list[i].id, filter)
                  /\ list[i] = ScanTask(ZeroTask, list[i].id, tasks[list[i].id])
                  /\ filter # NilStatus => list[i].status = filter
            /\ \A i \in 1 .. Len(list) : \A j \in 1 .. Len(list) :
                  i < j =>
                     \/ list[i].created_at > list[j].created_at
                     \/ /\ list[i].created_at = list[j].created_at
                        /\ list[i].id > list[j].id
            /\ \A id \in Ids \ Listed(list) :
                  Matches(id, filter) =>
                     /\ Len(list) = limit
                     /\ \A i \in 1 .. Len(list) :
                           \/ list[i].created_at > tasks[id].created_at
                           \/ /\ list[i].created_at = tasks[id].created_at
                              /\ list[i].id > id
            /\ tasks' = tasks]_vars

\* a list under a status filter cut by the limit: two rows have the status,
\* the newer one is returned
C26_Witness ==
    /\ rcall.op = "List"
    /\ rcall.filter = "completed"
    /\ rcall.limit = 1
    /\ Len(rcall.list) = 1
    /\ \E id \in Ids :
          /\ id < rcall.list[1].id
          /\ tasks[id].status = "completed"
          /\ tasks[id].created_at = rcall.list[1].created_at
    /\ \E id \in Ids : tasks[id].status # "completed"

\* the step in which processNext of w returns an error to the loop
ReturnsError(w) ==
    /\ wpc[w] \in {"claim", "claim_update", "work"}
    /\ wpc'[w] \notin {"claim", "claim_update", "work"}
    /\ werr'[w] \notin {"none", "unobserved"}

\* C27: an error of the claim or of the completion ends neither the loop of
\* the worker nor the pool: after processNext returns an error the worker is
\* back in its select, where a tick makes it claim again, and it leaves the
\* loop only from the select once the pool is stopped or the context is
\* cancelled.
C27_LoopSurvivesErrors ==
    /\ [](\A w \in Workers : wpc[w] = "select" => ENABLED WorkerTick(w))
    /\ [][\A w \in Workers :
            /\ ReturnsError(w) => (wpc'[w] = "select" /\ wg' = wg /\ mpc' = mpc)
            /\ (wpc[w] # "exited" /\ wpc'[w] = "exited") =>
                  (wpc[w] = "select" /\ (stop \/ ctxDone))]_vars

\* a worker whose completion failed waits in its select while another one,
\* whose claim failed before, has taken its next tick
C27_Witness ==
    \E w \in Workers : \E o \in Workers \ {w} :
        /\ werr[w] = "complete"
        /\ wpc[w] = "select"
        /\ ENABLED WorkerTick(w)
        /\ wpc[o] = "claim"

\* C28: when the completion of a claimed task fails, the task is pending
\* when processNext returns.
C28_PendingAfterFailedComplete ==
    [][\A w \in Workers :
          (ProcessNextReturns(w) /\ werr'[w] = "complete" /\ wtask[w] \in Ids') =>
              tasks'[wtask[w]].status = "pending"]_vars

\* C29: every operation that changes the status or a field of a task (Update,
\* claim, complete, revert to pending) leaves its updated_at not earlier than
\* it was and not earlier than the time of the operation.
C29_UpdatedAtRefreshed ==
    [][\A id \in Ids \cap Ids' :
          tasks'[id] # tasks[id] =>
              /\ tasks'[id].updated_at >= tasks[id].updated_at
              /\ tasks'[id].updated_at >= now]_vars

RECURSIVE SumOver(_, _)
SumOver(f, S) ==
    IF S = {} THEN 0
    ELSE LET x == CHOOSE y \in S : TRUE IN f[x] + SumOver(f, S \ {x})

\* C30: Stats is a function of the current rows: by_status[s] is the number
\* of rows with status s, total_tasks is the number of rows and the sum of
\* the counts of by_status, and computing it changes no row.
C30_StatsOfRows ==
    [][Calls("GetStats") =>
         LET stats == rcall'.stats IN
         /\ \A st \in TaskStatuses :
               stats.by_status[st] = Cardinality({id \in Ids : tasks[id].status = st})
         /\ stats.total_tasks = Cardinality(Ids)
         /\ stats.total_tasks = SumOver(stats.by_status, DOMAIN stats.by_status)
         /\ tasks' = tasks]_vars

\* stats computed after a row was deleted and another one completed
C30_Witness ==
    /\ rcall.op = "GetStats"
    /\ rcall.stats.total_tasks = Cardinality(Ids)
    /\ rcall.stats.by_status["completed"] >= 1
    /\ rcall.stats.total_tasks < NumSeed

\* C31: the request layer writes 404 for NotFound, 409 for Conflict, 400 for
\* a validation error, 500 for any other error, and 201 for a Create that
\* succeeds, whether it made the task or found the one of a repeated key.
C31_ResponseCodes ==
    hres.op # "none" =>
        /\ hres.err = "notfound" => hres.code = 404
        /\ hres.err = "conflict" => hres.code = 409
        /\ hres.err = "validation" => hres.code = 400
        /\ hres.err = "internal" => hres.code = 500
        /\ (hres.op = "Create" /\ hres.err = "ok") => hres.code = 201
        /\ hres.code \in {404, 409, 500} <=> hres.err \in {"notfound", "conflict", "internal"}

\* a request with a repeated key was answered 201 with the task the first
\* request with that key had made
C31_Witness ==
    /\ hres.op = "Create"
    /\ hres.code = 201
    /\ creq[hres.who].key = IdemKey
    /\ \E d \in Creators \ {hres.who} :
          /\ cpc[d] = "responded" /\ cres[d] = "ok"
          /\ creq[d].key = IdemKey
          /\ cid[d] = hres.id

\* the step in which worker w moves the task it holds: its claim returns, or
\* its processNext returns after the completion or the revert
Moves(w, id) == wtask[w] = id /\ (ClaimReturns(w) \/ ProcessNextReturns(w))

\* the valid tasks an editor builds for row id from the version that is stored
ReadRequests(id) ==
    {t \in [id : {id}, title : OpTitles, priority : OpPriorities,
            version : {tasks[id].version}] : validate(t)}

\* C32: claim, complete and revert leave the version of the task as it is, so
\* an Update with the version read before such a step is accepted after it;
\* the stored version changes only in an accepted Update, by one, and never
\* decreases.
C32_VersionOnlyByUpdate ==
    [][\A id \in Ids \cap Ids' :
          /\ tasks'[id].version >= tasks[id].version
          /\ tasks'[id].version # tasks[id].version =>
                /\ tasks'[id].version = tasks[id].version + 1
                /\ tasks'[id].status = tasks[id].status
                /\ wpc' = wpc
          /\ (\E w \in Workers : Moves(w, id)) =>
                /\ tasks'[id].version = tasks[id].version
                /\ \A t \in ReadRequests(id) : UpdateError(t)' = "ok"]_vars

\* a worker holds a task in processing that an Update has been accepted for
C32_Witness ==
    \E w \in Workers :
        /\ wpc[w] = "work"
        /\ wtask[w] \in Ids
        /\ tasks[wtask[w]].status = "processing"
        /\ tasks[wtask[w]].version = InitialVersion + 1
        /\ ctxDone

\* C33: completeTask(id) leaves the row of that id completed whatever status
\* it had, returns no error, and leaves every other row as it was.
C33_CompleteAnyStatus ==
    [][Calls("completeTask") =>
          /\ Ids' = Ids
          /\ rcall'.err = "nil"
          /\ rcall'.id \in Ids => tasks'[rcall'.id].status = "completed"
          /\ \A o \in Ids \ {rcall'.id} : tasks'[o] = tasks[o]]_vars

\* a task that was never claimed has been completed, next to a pending one
C33_Witness ==
    /\ rcall.op = "completeTask"
    /\ rcall.was = "pending"
    /\ rcall.id \in Ids
    /\ tasks[rcall.id].status = "completed"
    /\ \E o \in Ids : tasks[o].status = "pending"

\* C34: a Claim that returns a task changes the claimed row only, and in it
\* only the status, to processing, and updated_at; the task it returns is the
\* stored row after the claim.
C34_ClaimFrame ==
    [][(Calls("claimTask") /\ rcall'.err = "nil") =>
          LET id == rcall'.task.id IN
          /\ id \in Ids /\ Ids' = Ids
          /\ tasks'[id] = [tasks[id] EXCEPT !.status = "processing",
                                            !.updated_at = tasks'[id].updated_at]
          /\ tasks'[id].title = tasks[id].title
          /\ tasks'[id].priority = tasks[id].priority
          /\ tasks'[id].version = tasks[id].version
          /\ tasks'[id].created_at = tasks[id].created_at
          /\ \A o \in Ids \ {id} : tasks'[o] = tasks[o]
          /\ rcall'.task = ScanTask(ZeroTask, id, tasks'[id])]_vars

\* a claim has returned a task whose version an Update had raised, at a time
\* later than the task's creation, next to another row
C34_Witness ==
    /\ rcall.op = "claimTask"
    /\ rcall.err = "nil"
    /\ rcall.task.id \in Ids
    /\ rcall.task = ScanTask(ZeroTask, rcall.task.id, tasks[rcall.task.id])
    /\ rcall.task.version > InitialVersion
    /\ rcall.task.updated_at > rcall.task.created_at
    /\ Cardinality(Ids) > 1

\* C35: an Update that succeeds changes title, priority, version and
\* updated_at of the row it addresses and nothing else: the status, the id
\* and created_at stay, and every other row; an Update with the stored
\* version succeeds whether the row is pending, processing or completed.
C35_UpdateFrame ==
    [][\A e \in Editors : Updates(e) =>
          LET t == ereq[e] IN
          /\ (validate(t) /\ t.id \in Ids /\ t.version = tasks[t.id].version) =>
                eres'[e] = "ok"
          /\ eres'[e] = "ok" =>
                /\ Ids' = Ids
                /\ tasks'[t.id] = [tasks[t.id] EXCEPT
                                      !.title = tasks'[t.id].title,
                                      !.priority = tasks'[t.id].priority,
                                      !.version = tasks'[t.id].version,
                                      !.updated_at = tasks'[t.id].updated_at]
                /\ tasks'[t.id].status = tasks[t.id].status
                /\ tasks'[t.id].created_at = tasks[t.id].created_at
                /\ \A o \in Ids \ {t.id} : tasks'[o] = tasks[o]]_vars

\* an Update of a completed task and one of a task in processing succeeded
C35_Witness ==
    \E e \in Editors : \E f \in Editors \ {e} :
        /\ epc[e] = "done" /\ eres[e] = "ok"
        /\ epc[f] = "done" /\ eres[f] = "ok"
        /\ ereq[e].id = ereq[f].id
        /\ ereq[e].id \in Ids
        /\ ereq[e].version < ereq[f].version
        /\ tasks[ereq[e].id].status = "completed"
        /\ tasks[ereq[e].id].updated_at > tasks[ereq[e].id].created_at

Processing == {id \in Ids : tasks[id].status = "processing"}

\* C36: in a run with no cancellation and no store error, the tasks in
\* processing are never more than the worker loops: each of them is the one
\* task that some loop is working on.
C36_ProcessingBound ==
    ~ctxDone =>
        /\ Cardinality(Processing) <= NumWorkers
        /\ \A id \in Processing : \E w \in Workers : Holds(w) /\ wtask[w] = id
        /\ \A w \in Workers : \A o \in Workers :
              (Holds(w) /\ Holds(o) /\ wtask[w] = wtask[o]) => w = o

\* every loop is working on a task while a task is still pending
C36_Witness ==
    /\ ~ctxDone
    /\ Cardinality(Processing) = NumWorkers
    /\ \E id \in Ids : tasks[id].status = "pending"
    /\ \A w \in Workers : Holds(w)

\* key k maps to a task that is deleted
Dead(k) == k \in DOMAIN idem /\ idem[k] \notin Ids

\* C37: once the task a key maps to is deleted, the key maps to that deleted
\* task for ever, and a Create called with the key after that looks the key
\* up, gets the id, returns NotFound from the Get and creates no task.
C37_DeadKey ==
    [][/\ \A k \in CreateKeys \ {NoKey} :
             Dead(k) => (Dead(k)' /\ idem'[k] = idem[k])
       /\ \A c \in Creators :
             /\ (cpc[c] = "idle" /\ cpc'[c] # "idle" /\ validate(creq'[c])
                   /\ creq'[c].key # NoKey /\ Dead(creq'[c].key)) =>
                   (cpc'[c] = "getkey" /\ tasks' = tasks)
             /\ (cpc[c] = "getkey" /\ cpc'[c] # "getkey" /\ Dead(creq[c].key)) =>
                   (cpc'[c] = "get" /\ cid'[c] = idem[creq[c].key] /\ tasks' = tasks)
             /\ (cpc[c] = "get" /\ cpc'[c] # "get" /\ cid[c] \notin Ids) =>
                   /\ cpc'[c] = "done"
                   /\ cres'[c] = "notfound"
                   /\ tasks' = tasks /\ nextId' = nextId /\ idem' = idem]_vars

\* a Create with the key of a deleted task has returned NotFound, after
\* another Create had made that task
C37_Witness ==
    \E c \in Creators : \E d \in Creators \ {c} :
        /\ cpc[c] = "done" /\ cres[c] = "notfound"
        /\ Dead(creq[c].key)
        /\ cid[c] = idem[creq[c].key]
        /\ cpc[d] = "done" /\ cres[d] = "ok"
        /\ cid[d] = cid[c]
        /\ Ids = {}

\* the step in which the save of the key of c's Create stores nothing though
\* the key is not mapped
SaveFails(c) ==
    /\ cpc[c] = "savekey" /\ cpc'[c] # "savekey"
    /\ creq[c].key \notin DOMAIN idem
    /\ idem' = idem

\* C38: when the save of the key fails after the task was created, Create
\* returns the created task with no error and the key stays unmapped; a
\* Create called with the key while it is unmapped creates a new task.
C38_LostSave ==
    [][\A c \in Creators :
          /\ SaveFails(c) =>
                /\ cpc'[c] = "done" /\ cres'[c] = "ok"
                /\ cid'[c] = cid[c] /\ cid[c] \in Ids'
                /\ creq[c].key \notin DOMAIN idem'
          /\ (cpc[c] = "getkey" /\ cpc'[c] # "getkey"
                /\ creq[c].key \notin DOMAIN idem) => cpc'[c] = "insert"
          /\ (cpc[c] = "insert" /\ cpc'[c] # "insert") =>
                /\ Ids' = Ids \cup {nextId} /\ nextId \notin Ids
                /\ cid'[c] = nextId]_vars

\* two Creates with the same key, one after the other, have returned two
\* tasks: the save of the first was lost
C38_Witness ==
    \E c \in Creators : \E d \in Creators \ {c} :
        /\ cpc[c] = "done" /\ cres[c] = "ok"
        /\ cpc[d] = "done" /\ cres[d] = "ok"
        /\ creq[c].key = IdemKey /\ creq[d].key = IdemKey
        /\ cid[c] < cid[d]
        /\ {cid[c], cid[d]} \subseteq Ids
        /\ IdemKey \in DOMAIN idem /\ idem[IdemKey] = cid[d]

\* C39: when the task a worker is processing has been deleted, the
\* completion or the revert that follows changes no row and is no error of
\* its own (processNext returns nil after the completion, and after a
\* cancellation what it returns for a task that exists), the worker is back
\* in its loop, and no step brings the deleted task back.
C39_DeletedUnderWorker ==
    [][/\ \A w \in Workers :
             (ProcessNextReturns(w) /\ wtask[w] \notin Ids) =>
                 /\ tasks' = tasks
                 /\ wpc'[w] = "select" /\ wg' = wg
                 /\ ~ctxDone => werr'[w] = "none"
                 /\ werr'[w] \in {"none", "ctx", "complete"}
       /\ \A id \in Ids' \ Ids : id = nextId]_vars

\* the task a worker is processing has been deleted, the context is live
\* and the completion is the worker's next step
C39_Witness ==
    \E w \in Workers :
        /\ ~ctxDone
        /\ Holds(w)
        /\ wtask[w] \notin Ids
        /\ wtask[w] < nextId
        /\ ENABLED Complete(w)

\* C40: the first Stop closes the stop channel and returns when the workers
\* are joined; a Stop called after it has returned panics in close(p.stop)
\* and never returns.
C40_StopOnce ==
    [][/\ (mpc = "running" /\ mpc' # "running") => (mpc' = "waiting" /\ ~stop /\ stop')
       /\ (mpc = "waiting" /\ mpc' # "waiting") =>
             (mpc' = "stopped" /\ \A w \in Workers : wpc[w] = "exited")
       /\ (mpc = "stopped" /\ mpc' # "stopped") => (stop /\ mpc' = "panicked")
       /\ mpc = "panicked" => mpc' = "panicked"]_vars

\* the second Stop has panicked, with the workers joined by the first one
C40_Witness ==
    /\ mpc = "panicked"
    /\ stop
    /\ \A w \in Workers : wpc[w] = "exited"
    /\ wg = 0

====
